---------------------------- MODULE Spec2Model ----------------------------
(***************************************************************************)
(* app.cache.function of @doop/cache: memoisation of a promise factory     *)
(* behind a cache id, with retry, rejectAs and the onCached / onRetry      *)
(* hooks.                                                                  *)
(*                                                                         *)
(* Every asynchronous boundary of the function is one action: the call     *)
(* itself, the settling of app.cache.get, the settling of the worker's     *)
(* promise, the settling of app.cache.set and the firing of the retry      *)
(* timer.  The store (app.cache, an external @momsfriendlydevco/cache      *)
(* instance) is a map from ids to entries; an entry vanishes when its      *)
(* expiry elapses or it is invalidated.                                    *)
(*                                                                         *)
(* The worker is a promise factory (the documented contract): each         *)
(* invocation returns a promise that later resolves or rejects.  Values    *)
(* never equal the invalidStore sentinel.  Under Spec the calls follow one *)
(* another: a call is made once the calls before it are over.              *)
(***************************************************************************)
EXTENDS Integers, FiniteSets

\* ------------------------------------------------------------------ bounds
NCalls == 2            \* calls of app.cache.function in one behaviour
MaxRetry == 2          \* largest settings.retry a call is given
MaxChunks == 2         \* most chunks a stream given to res.cacheSend carries

Calls == 1..NCalls

\* ------------------------------------------------------------------ values
Ids == {"k1", "k2"}
NoId == ""                              \* options without an id
Undefined == "undefined"                \* the JS value undefined
Values == {"A", "0", Undefined}         \* "0" stands for a falsy value
Falsy == {"0", Undefined, ""}
Errors == {"E1", "E2"}                  \* rejections of the worker
StoreErrors == {"ES"}                   \* rejections of app.cache.get / set
HookErrors == {"T"}                     \* errors thrown by a hook
Expiries == {"1h", "5m"}                \* settings.expiry

DefaultInvalidStore == "!!!UNKNOWN!!!"
DefaultExpiry == "1h"
StoreDefaultExpiry == "store-default"   \* app.cache.set without an expiry
NoIdError == "No ID specified for app.cache.function(id, worker)"
NonNumericDelay == "Got non-numeric delay for retryDelay"
DelayError == "TD"                      \* error thrown by a retryDelay function

\* ---------------------------------------------------------------- settings
\* The settings object of one call.  hasRejectAs is settings.hasOwnProperty(
\* 'rejectAs'); reading an absent rejectAs gives undefined.
SettingsSet ==
    { s \in [id : Ids \cup {NoId}, enabled : BOOLEAN, expiry : Expiries,
             retry : 0..MaxRetry, hasRejectAs : BOOLEAN, rejectAs : Values,
             invalidStore : {DefaultInvalidStore}] :
        ~s.hasRejectAs => s.rejectAs = Undefined }

DefaultSettings ==
    [id |-> NoId, enabled |-> TRUE, expiry |-> DefaultExpiry, retry |-> 0,
     hasRejectAs |-> FALSE, rejectAs |-> Undefined,
     invalidStore |-> DefaultInvalidStore]

\* ------------------------------------------------------------------- store
\* An entry of app.cache.  state is "absent" (never written), "live" or
\* "expired" (its TTL elapsed, or it was invalidated); by is the app.cache.set
\* that wrote it: the one of line 54 ("worker") or of line 59 ("rejectAs").
Absent == [state |-> "absent", val |-> Undefined, ttl |-> StoreDefaultExpiry, by |-> ""]
Expired == [Absent EXCEPT !.state = "expired"]

\* app.cache.get(id, fallback): the live value, else the fallback
StoreGet(st, id, fallback) ==
    IF st[id].state = "live" THEN st[id].val ELSE fallback

StoreSetMutFirstWins(st, id, val, ttl, by) ==
    IF st[id].state = "live" THEN st
    ELSE [st EXCEPT ![id] = [state |-> "live", val |-> val, ttl |-> ttl, by |-> by]]

\* app.cache.set(id, val, ttl)
StoreSet(st, id, val, ttl, by) ==
    [st EXCEPT ![id] = [state |-> "live", val |-> val, ttl |-> ttl, by |-> by]]

\* Where the value app.cache.get gave came from: the writer of a live entry,
\* else "absent" or "expired"
Source(st, id) == IF st[id].state = "live" THEN st[id].by ELSE st[id].state

\* ------------------------------------------------------------ hook outcomes
\* What a hook call does: return a value (possibly undefined) or throw.
Returns(v) == [kind |-> "return", val |-> v]
Throws(e) == [kind |-> "throw", val |-> e]
NoHook == [kind |-> "none", val |-> Undefined]
HookOutcomes == {Returns(v) : v \in Values} \cup {Throws(e) : e \in HookErrors}
\* settings.retryDelay, or the result of calling it: a finite number, a
\* non-finite value, or (a function that) throws
DelayOutcomes == {"finite", "nonfinite", "throw"}

VARIABLES
    store,      \* app.cache: id -> entry
    call,       \* per call: the closure of app.cache.function
    fs,         \* the filesystem at the path cacheFile resolves
    rq          \* the request / response pair cacheFile is handling

cacheVars == <<store, call>>
fileVars == <<fs, rq>>
vars == <<store, call, fs, rq>>

\* The closure of one call.
\*   pc        where the call is: idle, threw (synchronous throw), get, worker,
\*             set, rejectSet, timer, bypass, resolved, rejected, or pending
\*             (the returned promise is left with nothing that settles it)
\*   res       what app.cache.get resolved with
\*   src       where res came from (Source)
\*   attempt   the attempt counter of line 45
\*   value     the value the worker resolved with, being written to the store
\*   lastErr   the error the catch handler of line 56 was last entered with
\*   result    what the returned promise settled with
\*   via       the code path that settled the promise (or left it pending)
\*   lastHook  what the last call of settings.onCached / settings.onRetry did
\*   workerCalls, workerFails, gets, sets, timers, onRetryCalls: how often the
\*             call invoked worker(), saw it reject, called app.cache.get,
\*             app.cache.set, setTimeout and settings.onRetry
\*   storeFailed  whether an app.cache operation of this call rejected
IdleCall ==
    [pc |-> "idle", s |-> DefaultSettings, res |-> Undefined, src |-> "",
     attempt |-> 0, value |-> Undefined, lastErr |-> "", result |-> Undefined,
     via |-> "", lastHook |-> NoHook,
     workerCalls |-> 0, workerFails |-> 0, gets |-> 0, sets |-> 0,
     timers |-> 0, onRetryCalls |-> 0, storeFailed |-> FALSE]

\* ------------------------------------------- app.middleware.express.cacheFile
\* (src/middleware/express.cacheFile.doop)
Null == "null"
Path == "/cache/file"                   \* what settings.path resolves to
Body == "body"                          \* a string given to res.cacheSend

\* settings.enabled: a boolean, or a resolver called as (req, res)
EnabledKinds == {"true", "false", "fn-true", "fn-false"}
\* settings of one middleware: pathOK is whether settings.path resolves (the
\* default path function throws)
MwSettings == [enabled : EnabledKinds, pathOK : BOOLEAN]

\* The file at Path: a string written by writeFile, or the n chunks a write
\* stream has flushed so far
NoFile == [exists |-> FALSE, str |-> "", n |-> 0]
NoResponse == [kind |-> "none", str |-> "", n |-> 0]

\* The request being handled.
\*   pc         idle, resolving (line 106), access (line 125), mkdir (137),
\*              onCreate (138), downstream (after next()), teeing (68-74),
\*              sendFile (75), piping (77-89), writeFile (93), and the ends:
\*              served (onCachedFile), done (a response was sent), rejected
\*              (res.cacheSend rejected), error (res.sendError)
\*   cachePath  req.cachePath
\*   probe      what fs.promises.access found: "", "exists" or "absent"
\*   content, opt   the arguments of res.cacheSend: the content's shape and
\*              options.enabled ("absent" when not given)
\*   total, read    chunks of the stream, and how many the read side passed on
\*   open       a write stream on cachePath has chunks left to flush
\*   resp       what was sent as the response
\*   the counters: calls of next, fs.promises.access, fs.promises.mkdir,
\*              onCachedFile, onCreateFile, writes started on cachePath,
\*              assignments of a path to req.cachePath, res.sendError
IdleRq ==
    [pc |-> "idle", mw |-> [enabled |-> "true", pathOK |-> TRUE], cachePath |-> Null,
     probe |-> "", content |-> "", opt |-> "", total |-> 0, read |-> 0,
     open |-> FALSE, resp |-> NoResponse,
     nexts |-> 0, accesses |-> 0, mkdirs |-> 0, onCachedFiles |-> 0,
     onCreateFiles |-> 0, writes |-> 0, pathSets |-> 0, sendErrors |-> 0]

Init ==
    /\ store = [k \in Ids |-> Absent]
    /\ call = [c \in Calls |-> IdleCall]
    /\ fs = [dir |-> FALSE, file |-> NoFile]
    /\ rq = IdleRq


\* ------------------------------------------------- the expressions of the code
\* line 36: if (!settings.id) throw
IdMissing(s) == s.id \in Falsy

BypassMutNever(s) == FALSE

\* line 41: if (!settings.enabled) return Promise.resolve(worker())
Bypass(s) == ~s.enabled

IsHitMutTruthy(res, s) == res \notin Falsy /\ res # s.invalidStore

\* line 46: if (res !== settings.invalidStore): a result was found
IsHit(res, s) == res # s.invalidStore

UseCachedMutTruthy(output, res) == IF output \notin Falsy THEN output ELSE res

\* line 48: output !== undefined ? output : res
UseCached(output, res) == IF output # Undefined THEN output ELSE res

WorkerSetKeyMutFixed(s) == "k1"

\* line 54: app.cache.set(settings.id, value, settings.expiry)
WorkerSetKey(s) == s.id
WorkerSetExpiry(s) == s.expiry

HasRejectAsMutDefined(s) == s.rejectAs # Undefined

\* line 57: settings.hasOwnProperty('rejectAs')
HasRejectAs(s) == s.hasRejectAs

\* line 59: app.cache.set(settings.id, settings.rejectAs), no expiry given
RejectAsSetKey(s) == s.id
RejectAsSetValue(s) == s.rejectAs

\* line 60: settings.hasOwnProperty('retry') && settings.hasOwnProperty('retry') > 0
\* settings always owns retry (line 29) and true > 0 holds in JS
RetryEligible(s) == TRUE

ExhaustedMutEarly(attempt, s) == attempt >= s.retry
ExhaustedMutLate(attempt, s) == attempt > s.retry + 1

\* line 61: ++attempt > settings.retry, attempt being the incremented counter
Exhausted(attempt, s) == attempt > s.retry

\* ----------------------------------------------------- steps of the closure
Settle(k, pc, result, via) == [k EXCEPT !.pc = pc, !.result = result, !.via = via]

\* lines 46-49: the hit branch, out being what settings.onCached(settings, res)
\* did.  When onCached throws, the chain of line 47 rejects and neither
\* resolve nor reject of the returned promise is ever called.
HitBranch(k, out) ==
    LET k1 == [k EXCEPT !.lastHook = out] IN
    IF out.kind = "throw"
    THEN Settle(k1, "pending", Undefined, "onCachedThrew")
    ELSE Settle(k1, "resolved", UseCached(out.val, k.res), "hit")

\* lines 51-53: tryResolve() invokes the worker
TryResolve(k) == [k EXCEPT !.pc = "worker", !.workerCalls = @ + 1]

RetryBlockMutTruthy(k, hook, delay) ==
    LET k1 == [k EXCEPT !.onRetryCalls = @ + 1, !.lastHook = hook] IN
    IF hook.kind = "throw" THEN Settle(k1, "rejected", hook.val, "onRetryThrew")
    ELSE IF hook.val \notin Falsy THEN Settle(k1, "resolved", hook.val, "onRetryValue")
    ELSE IF delay = "throw" THEN Settle(k1, "rejected", DelayError, "retryDelayThrew")
    ELSE IF delay = "nonfinite" THEN Settle(k1, "rejected", NonNumericDelay, "badDelay")
    ELSE [k1 EXCEPT !.pc = "timer", !.timers = @ + 1]

RetryBlockMutWorkerErr(k, hook, delay) ==
    LET k1 == [k EXCEPT !.onRetryCalls = @ + 1, !.lastHook = hook] IN
    IF hook.kind = "throw" THEN Settle(k1, "rejected", k.lastErr, "onRetryThrew")
    ELSE IF hook.val # Undefined THEN Settle(k1, "resolved", hook.val, "onRetryValue")
    ELSE IF delay = "throw" THEN Settle(k1, "rejected", DelayError, "retryDelayThrew")
    ELSE IF delay = "nonfinite" THEN Settle(k1, "rejected", NonNumericDelay, "badDelay")
    ELSE [k1 EXCEPT !.pc = "timer", !.timers = @ + 1]

RetryBlockMutNoDelay(k, hook, delay) ==
    LET k1 == [k EXCEPT !.onRetryCalls = @ + 1, !.lastHook = hook] IN
    IF hook.kind = "throw" THEN Settle(k1, "rejected", hook.val, "onRetryThrew")
    ELSE IF hook.val # Undefined THEN Settle(k1, "resolved", hook.val, "onRetryValue")
    ELSE IF delay = "throw" THEN Settle(k1, "rejected", DelayError, "retryDelayThrew")
    ELSE IF delay = "nonfinite" THEN Settle(k1, "rejected", NonNumericDelay, "badDelay")
    ELSE TryResolve(k1)

\* lines 65-74: the try block of a retry, hook being what settings.onRetry(e,
\* attempt) did and delay what settings.retryDelay gave
RetryBlock(k, hook, delay) ==
    LET k1 == [k EXCEPT !.onRetryCalls = @ + 1, !.lastHook = hook] IN
    IF hook.kind = "throw" THEN Settle(k1, "rejected", hook.val, "onRetryThrew")
    ELSE IF hook.val # Undefined THEN Settle(k1, "resolved", hook.val, "onRetryValue")
    ELSE IF delay = "throw" THEN Settle(k1, "rejected", DelayError, "retryDelayThrew")
    ELSE IF delay = "nonfinite" THEN Settle(k1, "rejected", NonNumericDelay, "badDelay")
    ELSE [k1 EXCEPT !.pc = "timer", !.timers = @ + 1]

\* lines 56-80: the catch handler, entered with error e
Caught(k, e, hook, delay) ==
    LET k0 == [k EXCEPT !.lastErr = e] IN
    IF HasRejectAs(k.s)
    THEN [k0 EXCEPT !.pc = "rejectSet", !.sets = @ + 1]
    ELSE IF RetryEligible(k.s)
    THEN LET k1 == [k0 EXCEPT !.attempt = @ + 1] IN
         IF Exhausted(k1.attempt, k.s)
         THEN Settle(k1, "rejected", e, "exhausted")
         ELSE RetryBlock(k1, hook, delay)
    ELSE Settle(k0, "rejected", e, "noRetry")

\* ----------------------------------------------------------------- actions
Step(c, k) == call' = [call EXCEPT ![c] = k] /\ UNCHANGED fileVars

\* A call is over once its promise is settled, it threw, or nothing is left
\* that could settle its promise
Over(k) == k.pc \in {"resolved", "rejected", "threw", "pending"}

\* lines 23-43: app.cache.function(options, worker) runs with settings s
Enter(k, s) ==
    LET k1 == [k EXCEPT !.s = s] IN
    IF IdMissing(s) THEN Settle(k1, "threw", NoIdError, "noId")
    ELSE IF Bypass(s) THEN [k1 EXCEPT !.pc = "bypass", !.workerCalls = @ + 1]
    ELSE [k1 EXCEPT !.pc = "get", !.gets = @ + 1]

\* lines 23-43: app.cache.function(options, worker) is called, after the
\* calls made before it are over
Call(c) ==
    /\ \A d \in Calls : call[d].pc = "idle"
    /\ \E s \in SettingsSet : Step(c, Enter(call[c], s))
    /\ UNCHANGED store

\* Settings of calls that share an id and use the cache with the defaults
RaceSettings ==
    { s \in SettingsSet : s.id = "k1" /\ s.enabled /\ ~s.hasRejectAs
                            /\ s.retry <= 1 /\ s.expiry = DefaultExpiry }

\* lines 23-43: app.cache.function(options, worker) is called while earlier
\* calls for the same id may still be in flight; calls are numbered in the
\* order they are made
CallRace(c) ==
    /\ call[c].pc = "idle"
    /\ \A d \in Calls : d < c => call[d].pc # "idle"
    /\ \E s \in RaceSettings : Step(c, Enter(call[c], s))
    /\ UNCHANGED store

\* line 41: the worker's promise of a disabled call settles; the call returned
\* that promise itself
BypassSettle(c) ==
    /\ call[c].pc = "bypass"
    /\ \/ \E v \in Values :
            Step(c, Settle([call[c] EXCEPT !.value = v], "resolved", v, "bypass"))
       \/ \E e \in Errors :
            Step(c, Settle([call[c] EXCEPT !.workerFails = @ + 1, !.lastErr = e],
                           "rejected", e, "bypass"))
    /\ UNCHANGED store

\* lines 43-50, 83: app.cache.get resolves with res
GetDone(c) ==
    /\ call[c].pc = "get"
    /\ LET s == call[c].s
           res == StoreGet(store, s.id, s.invalidStore)
           k == [call[c] EXCEPT !.res = res, !.src = Source(store, s.id)] IN
       IF IsHit(res, s)
       THEN \E out \in HookOutcomes : Step(c, HitBranch(k, out))
       ELSE Step(c, TryResolve(k))
    /\ UNCHANGED store

\* line 43: app.cache.get rejects: the promise returned by line 43 rejects
GetFail(c) ==
    /\ call[c].pc = "get"
    /\ \E e \in StoreErrors :
         Step(c, Settle([call[c] EXCEPT !.storeFailed = TRUE], "rejected", e, "getFailed"))
    /\ UNCHANGED store

\* lines 53-54: the worker's promise resolves with v; app.cache.set is called
WorkerResolve(c) ==
    /\ call[c].pc = "worker"
    /\ \E v \in Values : Step(c, [call[c] EXCEPT !.pc = "set", !.value = v, !.sets = @ + 1])
    /\ UNCHANGED store

\* lines 53, 56: the worker's promise rejects with e
WorkerReject(c) ==
    /\ call[c].pc = "worker"
    /\ \E e \in Errors, hook \in HookOutcomes, delay \in DelayOutcomes :
         Step(c, Caught([call[c] EXCEPT !.workerFails = @ + 1], e, hook, delay))
    /\ UNCHANGED store

\* lines 54-55: app.cache.set resolves: the value is stored, resolve(value)
SetDone(c) ==
    /\ call[c].pc = "set"
    /\ LET k == call[c] IN
       /\ store' = StoreSet(store, WorkerSetKey(k.s), k.value, WorkerSetExpiry(k.s), "worker")
       /\ Step(c, Settle(k, "resolved", k.value, "worker"))

SetFailMutRejects(c) ==
    /\ call[c].pc = "set"
    /\ \E e \in StoreErrors :
         Step(c, Settle([call[c] EXCEPT !.storeFailed = TRUE, !.lastErr = e],
                        "rejected", e, "setFailed"))
    /\ UNCHANGED store

\* lines 54, 56: app.cache.set rejects: the catch handler takes the error
SetFail(c) ==
    /\ call[c].pc = "set"
    /\ \E e \in StoreErrors, hook \in HookOutcomes, delay \in DelayOutcomes :
         Step(c, Caught([call[c] EXCEPT !.storeFailed = TRUE], e, hook, delay))
    /\ UNCHANGED store

\* line 59: app.cache.set(id, rejectAs) resolves; `.then(()=> rejectAs)` then
\* reads the undeclared name rejectAs, and whether that throws or not the
\* handler only returns: resolve and reject are never called
RejectSetDone(c) ==
    /\ call[c].pc = "rejectSet"
    /\ LET k == call[c] IN
       /\ store' = StoreSet(store, RejectAsSetKey(k.s), RejectAsSetValue(k.s),
                            StoreDefaultExpiry, "rejectAs")
       /\ Step(c, Settle(k, "pending", Undefined, "rejectAs"))

\* line 59: app.cache.set(id, rejectAs) rejects inside the catch handler
RejectSetFail(c) ==
    /\ call[c].pc = "rejectSet"
    /\ Step(c, Settle([call[c] EXCEPT !.storeFailed = TRUE], "pending", Undefined,
                      "rejectAsSetFailed"))
    /\ UNCHANGED store

\* line 70: the timer of setTimeout(tryResolve, useDelay) fires
TimerFire(c) ==
    /\ call[c].pc = "timer"
    /\ Step(c, TryResolve(call[c]))
    /\ UNCHANGED store

\* lines 24, 45: every call has its own settings and attempt counter; nothing
\* of a call that is over is kept
Return(c) ==
    /\ Over(call[c])
    /\ Step(c, IdleCall)
    /\ UNCHANGED store

\* The entry of id k expires (its TTL elapses) or is invalidated.  A call that
\* is over is looked at before time moves on: an expiry right after a call is
\* over is the same expiry after Return.
Expire(k) ==
    /\ store[k].state = "live"
    /\ \A c \in Calls : ~Over(call[c])
    /\ store' = [store EXCEPT ![k] = Expired]
    /\ UNCHANGED <<call, fileVars>>

Next ==
    \/ \E c \in Calls : Call(c)
    \/ \E c \in Calls : BypassSettle(c)
    \/ \E c \in Calls : GetDone(c)
    \/ \E c \in Calls : GetFail(c)
    \/ \E c \in Calls : WorkerResolve(c)
    \/ \E c \in Calls : WorkerReject(c)
    \/ \E c \in Calls : SetDone(c)
    \/ \E c \in Calls : SetFail(c)
    \/ \E c \in Calls : RejectSetDone(c)
    \/ \E c \in Calls : RejectSetFail(c)
    \/ \E c \in Calls : TimerFire(c)
    \/ \E c \in Calls : Return(c)
    \/ \E k \in Ids : Expire(k)

Spec == Init /\ [][Next]_vars

\* Concurrent calls for one id: nothing orders the steps of different calls
NextRace ==
    \/ \E c \in Calls : CallRace(c)
    \/ \E c \in Calls : GetDone(c)
    \/ \E c \in Calls : WorkerResolve(c)
    \/ \E c \in Calls : WorkerReject(c)
    \/ \E c \in Calls : SetDone(c)
    \/ \E c \in Calls : TimerFire(c)

SpecRace == Init /\ [][NextRace]_vars


\* ------------------------------------- the expressions of cacheFile's code
\* lines 108-110, 118: what `enabled` resolves to, a boolean or the resolver's
\* result
ResolvesEnabled(e) == e \in {"true", "fn-true"}

SkipsMutNever(e) == FALSE
\* line 118: if (!enabled) throw 'NEXT'
Skips(e) == ~ResolvesEnabled(e)

ServesCachedMutNever(probe) == FALSE
\* line 130: if (exists)
ServesCached(probe) == probe = "exists"

\* lines 59-63: csSettings.enabled, options.enabled over req.cachePath != null
CsEnabled(opt, cachePath) ==
    IF opt = "absent" THEN cachePath # Null ELSE opt = "true"

StringWritesMutNever(mwEnabled, opt, cachePath) == FALSE
\* line 93: settings.enabled && fs.promises.writeFile(...). settings.enabled is
\* the middleware's raw option: a resolver is a function, which is truthy
StringWrites(mwEnabled, opt, cachePath) == mwEnabled # "false"

\* --------------------------------------------------------- cacheFile actions
RqStep(r) == rq' = r /\ UNCHANGED <<cacheVars, fs>>

\* lines 142-148, e is not 'NEXT': res.sendError(e)
SendError(r) == [r EXCEPT !.pc = "error", !.sendErrors = @ + 1]

\* lines 42-105: a request reaches the middleware; req.cachePath = null
Request ==
    /\ rq.pc = "idle"
    /\ \E mw \in MwSettings :
         RqStep([IdleRq EXCEPT !.pc = "resolving", !.mw = mw])

\* lines 106-124 and the catch at 142-148: enabled and path resolve
Resolved ==
    /\ rq.pc = "resolving"
    /\ IF ~rq.mw.pathOK
         THEN RqStep(SendError(rq))
         ELSE IF Skips(rq.mw.enabled)
           THEN RqStep([rq EXCEPT !.pc = "downstream", !.nexts = @ + 1])
           ELSE RqStep([rq EXCEPT !.pc = "access", !.accesses = @ + 1])

\* lines 125-137: the probe settles; a present file goes to onCachedFile,
\* which by default is res.sendFile(path), an absent one sets req.cachePath
\* and starts mkdir
AccessDone ==
    /\ rq.pc = "access"
    /\ LET probe == IF fs.file.exists THEN "exists" ELSE "absent"
           r == [rq EXCEPT !.probe = probe]
       IN IF ServesCached(probe)
            THEN \E ok \in BOOLEAN :
                   LET h == [r EXCEPT !.onCachedFiles = @ + 1]
                   IN IF ok
                        THEN RqStep([h EXCEPT !.pc = "served",
                                 !.resp = [kind |-> "sendFile",
                                           str |-> fs.file.str, n |-> fs.file.n]])
                        ELSE RqStep(SendError(h))
            ELSE RqStep([r EXCEPT !.pc = "mkdir", !.cachePath = Path,
                                  !.pathSets = @ + 1, !.mkdirs = @ + 1])

\* lines 137-138: mkdir resolves and onCreateFile is called
MkdirDone ==
    /\ rq.pc = "mkdir"
    /\ rq' = [rq EXCEPT !.pc = "onCreate", !.onCreateFiles = @ + 1]
    /\ fs' = [fs EXCEPT !.dir = TRUE]
    /\ UNCHANGED cacheVars

\* line 137 rejecting, then 142-148
MkdirFail ==
    /\ rq.pc = "mkdir"
    /\ RqStep(SendError(rq))

\* lines 138-139: onCreateFile returns and next() runs, or it throws (142-148)
OnCreateDone ==
    /\ rq.pc = "onCreate"
    /\ \E ok \in BOOLEAN :
         IF ok THEN RqStep([rq EXCEPT !.pc = "downstream", !.nexts = @ + 1])
               ELSE RqStep(SendError(rq))

\* lines 58-100: the downstream handler calls res.cacheSend(content, options)
CacheSend ==
    /\ rq.pc = "downstream"
    /\ \E content \in {"stream", "string", "other"},
          opt \in {"absent", "true", "false"}, total \in 1..MaxChunks :
         LET r == [rq EXCEPT !.content = content, !.opt = opt]
             enabled == CsEnabled(opt, rq.cachePath)
         IN CASE content = "stream" /\ enabled ->
                   \* line 73: createWriteStream(null) throws
                   IF rq.cachePath = Null
                     THEN RqStep([r EXCEPT !.pc = "rejected"])
                     ELSE /\ rq' = [r EXCEPT !.pc = "teeing", !.total = total,
                                             !.open = TRUE, !.writes = @ + 1]
                          /\ fs' = [fs EXCEPT !.file =
                                      [exists |-> TRUE, str |-> "", n |-> 0]]
                          /\ UNCHANGED cacheVars
              [] content = "stream" /\ ~enabled ->
                   RqStep([r EXCEPT !.pc = "piping", !.total = total])
              [] content = "string" ->
                   /\ total = 1
                   /\ IF StringWrites(rq.mw.enabled, opt, rq.cachePath)
                        \* line 93: writeFile(null, ...) rejects
                        THEN IF rq.cachePath = Null
                               THEN RqStep([r EXCEPT !.pc = "rejected"])
                               ELSE RqStep([r EXCEPT !.pc = "writeFile",
                                                     !.writes = @ + 1])
                        ELSE RqStep([r EXCEPT !.pc = "done",
                                 !.resp = [kind |-> "send", str |-> Body, n |-> 0]])
              [] content = "other" ->
                   /\ total = 1
                   /\ RqStep([r EXCEPT !.pc = "rejected"])

\* the downstream handler answers without res.cacheSend
Respond ==
    /\ rq.pc = "downstream"
    /\ RqStep([rq EXCEPT !.pc = "done",
                         !.resp = [kind |-> "other", str |-> "", n |-> 0]])

\* lines 70, 73: the read side hands one more chunk to the write stream
TeeRead ==
    /\ rq.pc = "teeing"
    /\ rq.read < rq.total
    /\ RqStep([rq EXCEPT !.read = @ + 1])

\* line 73: the write stream flushes one chunk it was handed to the file
TeeFlush ==
    /\ rq.open
    /\ fs.file.n < rq.read
    /\ fs' = [fs EXCEPT !.file.n = @ + 1]
    /\ rq' = [rq EXCEPT !.open = ~(rq.pc # "teeing" /\ fs.file.n + 1 = rq.read)]
    /\ UNCHANGED cacheVars

\* lines 71, 75: the read side emits 'end'; the promise resolves and
\* res.sendFile(req.cachePath) is called
TeeEnd ==
    /\ rq.pc = "teeing"
    /\ rq.read = rq.total
    /\ RqStep([rq EXCEPT !.pc = "sendFile", !.open = fs.file.n < rq.read])

\* line 72: the stream emits 'error'; res.cacheSend rejects
TeeError ==
    /\ rq.pc = "teeing"
    /\ RqStep([rq EXCEPT !.pc = "rejected", !.open = fs.file.n < rq.read])

\* line 75: res.sendFile reads the file as it is on disk
SendFile ==
    /\ rq.pc = "sendFile"
    /\ RqStep([rq EXCEPT !.pc = "done",
                 !.resp = [kind |-> "sendFile", str |-> fs.file.str, n |-> fs.file.n]])

\* line 88: one more chunk is piped to the response
PipeRead ==
    /\ rq.pc = "piping"
    /\ rq.read < rq.total
    /\ RqStep([rq EXCEPT !.read = @ + 1])

\* lines 80-83: 'end' of a stream piped to the response
PipeEnd ==
    /\ rq.pc = "piping"
    /\ rq.read = rq.total
    /\ RqStep([rq EXCEPT !.pc = "done",
                 !.resp = [kind |-> "end", str |-> "", n |-> rq.read]])

\* lines 84-87: 'error' of a stream piped to the response
PipeError ==
    /\ rq.pc = "piping"
    /\ RqStep([rq EXCEPT !.pc = "rejected",
                 !.resp = [kind |-> "end", str |-> "error", n |-> rq.read]])

\* lines 93-94: writeFile resolves, then res.send(content)
WriteFileDone ==
    /\ rq.pc = "writeFile"
    /\ fs' = [fs EXCEPT !.file = [exists |-> TRUE, str |-> Body, n |-> 0]]
    /\ rq' = [rq EXCEPT !.pc = "done",
                        !.resp = [kind |-> "send", str |-> Body, n |-> 0]]
    /\ UNCHANGED cacheVars

\* line 93 rejecting: res.cacheSend rejects and line 94 does not run
WriteFileFail ==
    /\ rq.pc = "writeFile"
    /\ RqStep([rq EXCEPT !.pc = "rejected"])

RequestOver == rq.pc \in {"served", "done", "rejected", "error"}

\* the request is over and its write stream has closed: the next one may come
Finish ==
    /\ RequestOver
    /\ ~rq.open
    /\ RqStep(IdleRq)

\* the cache file is removed between requests
Unlink ==
    /\ rq.pc = "idle"
    /\ fs.file.exists
    /\ fs' = [fs EXCEPT !.file = NoFile]
    /\ UNCHANGED <<cacheVars, rq>>

NextFile ==
    \/ Request
    \/ Resolved
    \/ AccessDone
    \/ MkdirDone
    \/ MkdirFail
    \/ OnCreateDone
    \/ CacheSend
    \/ Respond
    \/ TeeRead
    \/ TeeFlush
    \/ TeeEnd
    \/ TeeError
    \/ SendFile
    \/ PipeRead
    \/ PipeEnd
    \/ PipeError
    \/ WriteFileDone
    \/ WriteFileFail
    \/ Finish
    \/ Unlink

SpecFile == Init /\ [][NextFile]_vars

\* ------------------------------------------------------------------ claims
\* A live entry as app.cache.set leaves it
Live(val, ttl, by) == [state |-> "live", val |-> val, ttl |-> ttl, by |-> by]

\* The call passed validation and uses the cache
Caching(k) == k.pc \notin {"idle", "threw"} /\ k.s.enabled
\* app.cache.get of the call has resolved
PastGet(k) == Caching(k) /\ k.pc # "get" /\ k.via # "getFailed"
\* onCached was called and returned undefined, as the default onCached does
PlainHit(k) == k.via = "hit" /\ k.lastHook = Returns(Undefined)

\* C1: of two sequential calls with the same id, cache enabled, no store
\* failure and no expiry between them, the first, whose worker succeeded with
\* v, resolves with v leaving v live in the store under the id; the second,
\* whose app.cache.get then finds that entry (v being any value, falsy ones
\* included), never invokes its worker and, its onCached returning undefined
\* as the default does, resolves with v.
C1_SecondCallServedFromCache ==
    \A c \in Calls :
      LET k == call[c] IN
      /\ (k.pc = "resolved" /\ k.via = "worker")
           => /\ k.result = k.value
              /\ store[k.s.id] = Live(k.value, k.s.expiry, "worker")
      /\ (PastGet(k) /\ k.src = "worker")
           => /\ k.res = store[k.s.id].val
              /\ k.workerCalls = 0
              /\ k.pc \in {"resolved", "pending"}
              /\ PlainHit(k) => (k.pc = "resolved" /\ k.result = k.res)

C1_Witness ==
    \E c \in Calls :
      /\ call[c].src = "worker" /\ PlainHit(call[c])
      /\ call[c].pc = "resolved" /\ call[c].result = "0"

\* C2: a call whose app.cache.get finds the entry of its id expired (or
\* invalidated) is a miss: it invokes the worker again and, when the worker
\* succeeds, resolves with the worker's new value and leaves that value live
\* in the store under the id.
C2_RefreshAfterExpiry ==
    \A c \in Calls :
      LET k == call[c] IN
      (PastGet(k) /\ k.src = "expired")
        => /\ k.res = k.s.invalidStore
           /\ k.workerCalls >= 1
           /\ k.via # "hit"
           /\ (k.pc = "resolved" /\ k.via = "worker")
                => /\ k.result = k.value
                   /\ store[k.s.id].state = "live"
                   /\ store[k.s.id].val = k.value

C2_Witness ==
    \E c \in Calls :
      /\ call[c].src = "expired" /\ call[c].pc = "resolved" /\ call[c].via = "worker"
      /\ call[c].result = "A" /\ store[call[c].s.id].val = "A"

\* The retry loop of a call without rejectAs whose store operations all
\* succeeded; the hooks that let it go on returned undefined (onRetry) and a
\* finite delay (retryDelay)
Retrying(k) == PastGet(k) /\ ~k.s.hasRejectAs /\ ~k.storeFailed /\ k.via # "hit"
                 /\ k.via # "onCachedThrew"

\* C3: on a miss with retry = N, no rejectAs, onRetry returning undefined and
\* finite delays: while the worker has failed k <= N times the call goes on
\* (it is not rejected for exhaustion), each failure is followed by one timer
\* and one more invocation, and when the worker then succeeds with v the call
\* resolves with v after exactly k + 1 invocations, v being stored under the
\* id with the configured expiry.
C3_RetryThenSuccess ==
    \A c \in Calls :
      LET k == call[c] IN
      Retrying(k)
        => /\ k.attempt = k.workerFails
           /\ k.via = "exhausted" => k.workerFails > k.s.retry
           /\ k.pc \in {"worker", "set"}
                => /\ k.workerFails <= k.s.retry
                   /\ k.workerCalls = k.workerFails + 1
                   /\ k.timers = k.workerFails
           /\ k.pc = "timer"
                => /\ k.workerFails <= k.s.retry
                   /\ k.workerCalls = k.workerFails
                   /\ k.timers = k.workerFails
           /\ (k.pc = "resolved" /\ k.via = "worker")
                => /\ k.workerFails <= k.s.retry
                   /\ k.workerCalls = k.workerFails + 1
                   /\ k.result = k.value
                   /\ store[k.s.id] = Live(k.value, k.s.expiry, "worker")

C3_Witness ==
    \E c \in Calls :
      /\ Retrying(call[c]) /\ call[c].pc = "resolved" /\ call[c].via = "worker"
      /\ call[c].workerFails = call[c].s.retry /\ call[c].workerFails >= 2
      /\ call[c].workerCalls = call[c].workerFails + 1

\* C4: on a miss with retry = N >= 0, no rejectAs, onRetry returning undefined
\* and finite delays, a worker that fails on every invocation is invoked
\* exactly N + 1 times: the call then rejects with the error of that last
\* invocation, and app.cache.set is never called.
C4_RetryExhausted ==
    \A c \in Calls :
      LET k == call[c] IN
      Retrying(k)
        => /\ k.workerFails <= k.s.retry + 1
           /\ k.workerFails = k.workerCalls
                => /\ k.sets = 0
                   /\ k.workerFails = k.s.retry + 1
                        => /\ k.pc = "rejected" /\ k.via = "exhausted"
                           /\ k.result = k.lastErr /\ k.lastErr \in Errors
           /\ k.via = "exhausted"
                => /\ k.pc = "rejected"
                   /\ k.workerCalls = k.s.retry + 1
                   /\ k.workerFails = k.s.retry + 1
                   /\ k.timers = k.s.retry
                   /\ k.sets = 0
                   /\ store[k.s.id].state # "live"

C4_Witness ==
    \E c \in Calls :
      /\ Retrying(call[c]) /\ call[c].via = "exhausted" /\ call[c].pc = "rejected"
      /\ call[c].s.retry >= 2 /\ call[c].workerCalls = call[c].s.retry + 1
      /\ call[c].result = "E2"


\* C5: on a miss where settings carries rejectAs (an explicit undefined
\* included) and the worker failed, the call, once nothing of it is left to
\* run, has resolved with the rejectAs value.
C5_RejectAsResolves ==
    \A c \in Calls :
      LET k == call[c] IN
      (PastGet(k) /\ k.s.hasRejectAs /\ k.workerFails >= 1 /\ ~k.storeFailed /\ Over(k))
        => (k.pc = "resolved" /\ k.result = k.s.rejectAs)

\* C6: on a miss where rejectAs is configured the worker is invoked once
\* whatever retry is: its failure is followed by no retry, no onRetry call and
\* no timer, but by app.cache.set of the rejectAs value under the id; a later
\* call whose app.cache.get finds that entry never invokes its worker and,
\* its onCached returning undefined as the default does, resolves with the
\* rejectAs value.
C6_RejectAsCachedOnce ==
    \A c \in Calls :
      LET k == call[c] IN
      /\ (PastGet(k) /\ k.s.hasRejectAs)
           => /\ k.workerCalls <= 1
              /\ k.attempt = 0 /\ k.timers = 0 /\ k.onRetryCalls = 0
              /\ k.workerFails = 1 => k.pc \in {"rejectSet", "pending"}
              /\ k.pc = "rejectSet" => (k.workerCalls = 1 /\ k.sets >= 1)
              /\ k.via = "rejectAs"
                   => /\ k.workerCalls = 1
                      /\ store[k.s.id] = Live(k.s.rejectAs, StoreDefaultExpiry, "rejectAs")
      /\ (PastGet(k) /\ k.src = "rejectAs")
           => /\ k.res = store[k.s.id].val
              /\ k.workerCalls = 0
              /\ PlainHit(k) => (k.pc = "resolved" /\ k.result = k.res)

C6_Witness ==
    \E c \in Calls :
      /\ call[c].via = "rejectAs" /\ call[c].workerFails = 1 /\ call[c].s.retry >= 2
      /\ call[c].workerCalls = 1 /\ call[c].s.rejectAs = Undefined
      /\ store[call[c].s.id].by = "rejectAs"

\* C7: on a cache hit with stored value Y, the call resolves with X when
\* onCached returned a defined X and with Y when it returned undefined; either
\* way the worker is not invoked, app.cache.set is not called and the stored
\* value stays Y.
C7_OnCachedOverride ==
    \A c \in Calls :
      LET k == call[c] IN
      (k.via = "hit")
        => /\ k.pc = "resolved"
           /\ k.lastHook.kind = "return"
           /\ k.result = (IF k.lastHook.val # Undefined THEN k.lastHook.val ELSE k.res)
           /\ k.workerCalls = 0 /\ k.sets = 0
           /\ store[k.s.id].state = "live" /\ store[k.s.id].val = k.res

C7_Witness ==
    \E c \in Calls :
      /\ call[c].via = "hit" /\ call[c].res = "A"
      /\ call[c].lastHook = Returns("0") /\ call[c].result = "0"

\* C8: with settings.enabled false the worker is invoked exactly once and the
\* call settles as the worker's promise does; app.cache.get and app.cache.set
\* are never called and nothing is retried, whatever retry, rejectAs and the
\* store are.
C8_DisabledBypass ==
    \A c \in Calls :
      LET k == call[c] IN
      (k.pc \notin {"idle", "threw"} /\ ~k.s.enabled)
        => /\ k.pc \in {"bypass", "resolved", "rejected"}
           /\ k.workerCalls = 1
           /\ k.gets = 0 /\ k.sets = 0 /\ k.src = ""
           /\ k.attempt = 0 /\ k.timers = 0 /\ k.onRetryCalls = 0
           /\ k.pc = "resolved" => (k.result = k.value /\ k.workerFails = 0)
           /\ k.pc = "rejected" => (k.result = k.lastErr /\ k.workerFails = 1)

C8_Witness ==
    \E c \in Calls :
      /\ ~call[c].s.enabled /\ call[c].pc = "rejected" /\ call[c].result = "E1"
      /\ call[c].s.retry >= 1 /\ call[c].s.hasRejectAs
      /\ store[call[c].s.id].state = "live"

\* C9: when onRetry(error, attempt) returns a defined value r the call
\* resolves with r at once: the worker is not invoked again, no timer is
\* scheduled, and r is not stored, so the id is still a miss.
C9_OnRetryValue ==
    \A c \in Calls :
      LET k == call[c] IN
      (k.onRetryCalls >= 1 /\ k.lastHook.kind = "return" /\ k.lastHook.val # Undefined)
        => /\ k.pc = "resolved" /\ k.via = "onRetryValue"
           /\ k.result = k.lastHook.val
           /\ k.workerCalls = k.attempt
           /\ k.onRetryCalls = k.attempt
           /\ k.timers = k.attempt - 1
           /\ ~k.storeFailed => k.sets = 0
           /\ store[k.s.id].state # "live"

C9_Witness ==
    \E c \in Calls :
      /\ call[c].via = "onRetryValue" /\ call[c].result = "0"
      /\ call[c].attempt >= 2 /\ call[c].attempt <= call[c].s.retry

\* C10: when onRetry(error, attempt) throws t the call rejects with t, not
\* with the worker's error; the worker is not invoked again and nothing is
\* stored.
C10_OnRetryThrows ==
    \A c \in Calls :
      LET k == call[c] IN
      (k.onRetryCalls >= 1 /\ k.lastHook.kind = "throw")
        => /\ k.pc = "rejected" /\ k.via = "onRetryThrew"
           /\ k.result = k.lastHook.val
           /\ k.workerCalls = k.attempt
           /\ k.timers = k.attempt - 1
           /\ ~k.storeFailed => k.sets = 0
           /\ store[k.s.id].state # "live"

C10_Witness ==
    \E c \in Calls :
      /\ call[c].via = "onRetryThrew" /\ call[c].result = "T"
      /\ call[c].lastErr = "E1" /\ call[c].attempt >= 2


\* C15: within one call the worker attempts follow one another: every
\* invocation but the one in flight has ended in the catch handler, which
\* advanced attempt by one, and every invocation after the first was started
\* by its own timer, so invocations, attempts and timers advance in step and
\* at most one invocation is not yet caught.
C15_AttemptsSequential ==
    \A c \in Calls :
      LET k == call[c] IN
      (PastGet(k) /\ k.via # "hit" /\ k.via # "onCachedThrew" /\ ~k.s.hasRejectAs)
        => /\ k.workerCalls - k.attempt \in {0, 1}
           /\ k.workerCalls - k.timers \in {0, 1}
           /\ k.pc \in {"worker", "set"}
                => (k.workerCalls = k.attempt + 1 /\ k.timers = k.attempt)
           /\ k.pc = "timer"
                => (k.workerCalls = k.attempt /\ k.timers = k.attempt)
           /\ k.pc = "rejected"
                => (k.workerCalls = k.attempt /\ k.timers = k.attempt - 1)
           /\ k.attempt <= k.s.retry + 1

C15_Witness ==
    \E c \in Calls :
      /\ call[c].pc = "worker" /\ call[c].workerCalls = 3
      /\ call[c].attempt = 2 /\ call[c].timers = 2

\* C17 as claimed: a rejection of app.cache.get or of app.cache.set is handled
\* as a worker rejection is: its error reaches the caller only once the
\* retries are exhausted, and never when rejectAs is configured.
C17_StoreFailureLikeWorkerFailure ==
    \A c \in Calls :
      LET k == call[c] IN
      (Caching(k) /\ k.storeFailed /\ k.pc = "rejected" /\ k.result \in StoreErrors)
        => (~k.s.hasRejectAs /\ k.attempt = k.s.retry + 1)

\* C17 as amended: a rejection of the app.cache.set that follows a successful
\* worker enters the catch handler as a worker rejection does (rejectAs when
\* configured, else one attempt used, a retry, or the error surfaced on
\* exhaustion); a rejection of the initial app.cache.get rejects the call at
\* once with that error, whatever retry and rejectAs are.
C17_SetFailureRetriedGetFailureNot ==
    \A c \in Calls :
      LET k == call[c] IN
      (Caching(k) /\ k.storeFailed)
        => /\ k.via = "getFailed"
                => /\ k.pc = "rejected" /\ k.result \in StoreErrors
                   /\ k.workerCalls = 0 /\ k.attempt = 0
                   /\ k.sets = 0 /\ k.timers = 0 /\ k.onRetryCalls = 0
           /\ (k.via # "getFailed" /\ k.s.hasRejectAs)
                => /\ k.pc \in {"rejectSet", "pending"}
                   /\ k.attempt = 0 /\ k.workerCalls = 1
           /\ (k.via # "getFailed" /\ ~k.s.hasRejectAs)
                => /\ k.attempt >= 1
                   /\ k.workerCalls - k.attempt \in {0, 1}
                   /\ (k.pc = "rejected" /\ k.result \in StoreErrors)
                        => /\ k.via = "exhausted"
                           /\ k.attempt = k.s.retry + 1
                           /\ k.result = k.lastErr

C17_Witness ==
    \E c \in Calls :
      /\ call[c].storeFailed /\ call[c].via = "exhausted" /\ call[c].result = "ES"
      /\ call[c].s.retry >= 1 /\ call[c].workerFails = 0
      /\ call[c].workerCalls = call[c].s.retry + 1

\* Something of call c is still to run
CallCanStep(c) ==
    ENABLED (BypassSettle(c) \/ GetDone(c) \/ GetFail(c) \/ WorkerResolve(c)
               \/ WorkerReject(c) \/ SetDone(c) \/ SetFail(c) \/ RejectSetDone(c)
               \/ RejectSetFail(c) \/ TimerFire(c))

\* C20: a call that passed validation is settled (resolved or rejected) or
\* has a step left that the store, the worker or a timer will take: no path
\* leaves the returned promise pending with nothing left to settle it.
C20_EveryCallSettles ==
    \A c \in Calls :
      call[c].pc \notin {"idle", "threw"}
        => (call[c].pc \in {"resolved", "rejected"} \/ CallCanStep(c))


\* C16: concurrent calls for one id are not kept apart: calls that read the
\* store before any of them wrote all miss, all invoke their worker and all
\* write the store; each resolves with its own worker's value, and every
\* write replaces what the store held, so the store ends with the value of
\* the write that happened last.
C16_RaceLastWriteWins ==
    /\ [](\A c \in Calls :
            (call[c].pc = "resolved" /\ call[c].via = "worker")
              => /\ call[c].result = call[c].value
                 /\ call[c].workerCalls >= 1
                 /\ store[call[c].s.id].state = "live")
    /\ [][\A c \in Calls :
            (call[c].pc = "set" /\ call'[c].pc = "resolved")
              => /\ store'[call[c].s.id].val = call[c].value
                 /\ call'[c].result = call[c].value]_vars

C16_Witness ==
    /\ call[1].pc = "resolved" /\ call[1].via = "worker" /\ call[1].src = "absent"
    /\ call[2].pc = "resolved" /\ call[2].via = "worker" /\ call[2].src = "absent"
    /\ call[1].result = "A" /\ call[2].result = "0"
    /\ store["k1"].val = "A"

\* ----------------------------------------------------- claims about cacheFile
\* C11: on a request whose `enabled` resolves true and whose path is absent,
\* req.cachePath is set to the path, the parent directory is created, then
\* onCreateFile is called, and only then next() runs, once; when the
\* downstream handler then calls res.cacheSend(string) with default options
\* the string is written to req.cachePath and, after that, sent as the
\* response.
C11_MissCreatesThenCaches ==
    /\ rq.pc = "mkdir"
         => /\ rq.cachePath = Path /\ rq.mkdirs = 1
            /\ rq.onCreateFiles = 0 /\ rq.nexts = 0
    /\ rq.pc = "onCreate"
         => /\ rq.cachePath = Path /\ fs.dir
            /\ rq.onCreateFiles = 1 /\ rq.nexts = 0
    /\ (rq.probe = "absent" /\ rq.nexts >= 1)
         => /\ rq.cachePath = Path /\ fs.dir /\ rq.mkdirs = 1
            /\ rq.onCreateFiles = 1 /\ rq.nexts = 1
    /\ (rq.probe = "absent" /\ rq.content = "string" /\ rq.opt = "absent")
         => /\ rq.pc = "writeFile" => rq.resp = NoResponse
            /\ rq.pc = "done"
                 => /\ fs.file = [exists |-> TRUE, str |-> Body, n |-> 0]
                    /\ rq.resp = [kind |-> "send", str |-> Body, n |-> 0]
                    /\ rq.writes = 1

C11_Witness ==
    /\ rq.mw.enabled = "fn-true"
    /\ rq.probe = "absent" /\ rq.nexts = 1 /\ rq.onCreateFiles = 1
    /\ rq.content = "string" /\ rq.opt = "absent" /\ rq.pc = "done"
    /\ fs.file.str = Body /\ rq.resp.str = Body

C13_DisabledSkips ==
    (/\ rq.mw.enabled \in {"false", "fn-false"}
     /\ rq.mw.pathOK
     /\ rq.pc \notin {"idle", "resolving"})
      => /\ rq.accesses = 0 /\ rq.probe = ""
         /\ rq.mkdirs = 0
         /\ rq.onCachedFiles = 0 /\ rq.onCreateFiles = 0
         /\ rq.cachePath = Null
         /\ rq.nexts = 1 /\ rq.sendErrors = 0

C13_Witness ==
    /\ rq.mw.enabled = "fn-false" /\ rq.mw.pathOK
    /\ rq.pc = "downstream" /\ rq.nexts = 1 /\ rq.accesses = 0
    /\ fs.file.exists

\* C14: options.enabled of res.cacheSend decides whether the cache file is
\* written: with options.enabled false no write to req.cachePath is started,
\* for a stream and for a string, whatever the middleware's `enabled` is.
C14_OptionDisablesWrite ==
    (rq.opt = "false" /\ rq.content \in {"stream", "string"})
      => /\ rq.writes = 0
         /\ rq.pc \notin {"writeFile", "teeing", "sendFile"}

\* C18: req.cachePath is non-null only on a miss handed to the downstream
\* handler: it is null on a request that ended in onCachedFile, in the
\* disabled skip or in res.sendError, and it is set at most once per request.
C18_CachePathOnlyOnHandedMiss ==
    /\ rq.pc \in {"served", "error"} => rq.cachePath = Null
    /\ rq.probe # "absent" => rq.cachePath = Null
    /\ rq.pathSets <= 1

\* C19: with a stream and write-through enabled, the file is served only
\* after every chunk of the stream is on disk, so the served chunks are the
\* whole stream; a stream error rejects res.cacheSend and serves nothing.
C19_ServedAfterFullWrite ==
    rq.content = "stream" /\ rq.writes = 1
      => /\ rq.pc = "sendFile" => fs.file.n = rq.total
         /\ rq.pc = "done" => rq.resp = [kind |-> "sendFile", str |-> "", n |-> rq.total]
         /\ rq.pc = "rejected" => rq.resp = NoResponse

=============================================================================
